---- MODULE Spec2Model ----
(***************************************************************************)
(* Model of the document tools of the Puch AI MCP server                   *)
(* (src/tools/document.py): the per-identifier session store, the upload,  *)
(* process and search tools, the three direct tools, and the text          *)
(* functions they are built on.                                            *)
(*                                                                         *)
(* document_storage is the module's store; temp_files counts the temporary *)
(* files that exist between calls; call and response are the last call and *)
(* what it returned or raised; last_upload is a history variable, the text *)
(* and filename of the latest successful upload per key.                   *)
(*                                                                         *)
(* A Python str is a sequence of one-character strings, a bytes object a   *)
(* sequence of integers 0..255.  Python positions are kept 0-based:        *)
(* Python's s[i] is s[i + 1] here, and the operators below take and return *)
(* Python's numbers.                                                       *)
(*                                                                         *)
(* A local of the code that is read more than once is a parameter of a     *)
(* continuation operator (FindIn, ReplaceAt, ...), not a LET: the model    *)
(* checker evaluates a parameter once and a LET at every use.              *)
(***************************************************************************)
EXTENDS Integers, Sequences, FiniteSets, TLC

VARIABLES document_storage, temp_files, call, response, last_upload

vars == <<document_storage, temp_files, call, response, last_upload>>

-----------------------------------------------------------------------------
(* Python str primitives                                                   *)

\* A string literal as a str value.
Chars(s) == [i \in 1..Len(s) |-> SubSeq(s, i, i)]

Min(a, b) == IF a < b THEN a ELSE b

Max(a, b) == IF a > b THEN a ELSE b

\* s[a:b] for 0 <= a, with b clamped to len(s).
Slice(s, a, b) == SubSeq(s, a + 1, Min(b, Len(s)))

\* s.startswith(p)
StartsWith(s, p) == Len(p) <= Len(s) /\ SubSeq(s, 1, Len(p)) = p

\* str.isspace() for one character (ASCII whitespace).
Whitespace == {" ", "\t", "\n", "\r", "\f"}

UpperCase == Chars("ABCDEFGHIJKLMNOPQRSTUVWXYZ")

LowerCase == Chars("abcdefghijklmnopqrstuvwxyz")

LowerMap == [c \in {UpperCase[i] : i \in 1..26} |->
                LowerCase[CHOOSE i \in 1..26 : UpperCase[i] = c]]

LowerChar(c) == IF c \in DOMAIN LowerMap THEN LowerMap[c] ELSE c

\* The lower case of one character.  That of U+0130, the capital I with a
\* dot above, is two characters: i and the combining dot U+0307.
LowerOf(c) == IF c = "U+304" THEN <<"i", "U+775">> ELSE <<LowerChar(c)>>

\* s.lower()
RECURSIVE LowerFrom(_, _, _)
LowerFrom(s, i, out) ==
    IF i > Len(s) THEN out ELSE LowerFrom(s, i + 1, out \o LowerOf(s[i]))

\* str.lower(): character by character where every character has a lower
\* case of one character.
Lower(s) ==
    IF \A i \in 1..Len(s) : s[i] # "U+304"
    THEN [i \in 1..Len(s) |-> LowerChar(s[i])]
    ELSE LowerFrom(s, 1, <<>>)

\* s.find(q, start): the lowest position p >= start with s[p:p+len(q)] = q,
\* or -1.  An empty q is found at every position start <= len(s).
SetMin(S) == CHOOSE p \in S : \A r \in S : p <= r

SetMax(S) == CHOOSE p \in S : \A r \in S : p >= r

FindIn(hits) == IF hits = {} THEN -1 ELSE SetMin(hits)

Find(s, q, start) ==
    FindIn({p \in start..(Len(s) - Len(q)) : SubSeq(s, p + 1, p + Len(q)) = q})

\* q in s
Contains(s, q) == Find(s, q, 0) # -1

\* s.strip(chars): remove leading and trailing characters of the set.
StripKeep(s, keep) ==
    IF keep = {} THEN <<>> ELSE SubSeq(s, SetMin(keep), SetMax(keep))

StripSet(s, set) == StripKeep(s, {i \in 1..Len(s) : s[i] \notin set})

\* s.strip()
Strip(s) == StripSet(s, Whitespace)

\* s.replace(old, new) for a non-empty old: left to right, non-overlapping.
RECURSIVE Replace(_, _, _)
ReplaceAt(s, old, new, p) ==
    IF p = -1 THEN s
    ELSE Slice(s, 0, p) \o new \o Replace(Slice(s, p + Len(old), Len(s)), old, new)

Replace(s, old, new) == ReplaceAt(s, old, new, Find(s, old, 0))

\* s.split(sep) for a non-empty sep: always at least one piece.
RECURSIVE Split(_, _)
SplitAt(s, sep, p) ==
    IF p = -1 THEN <<s>>
    ELSE <<Slice(s, 0, p)>> \o Split(Slice(s, p + Len(sep), Len(s)), sep)

Split(s, sep) == SplitAt(s, sep, Find(s, sep, 0))

\* s.split(): the maximal runs of non-whitespace characters.
RECURSIVE SplitWords(_)
\* The word s[a..b-1] and the words after it.
WordTo(s, a, b) == <<SubSeq(s, a, b - 1)>> \o SplitWords(SubSeq(s, b, Len(s)))

\* The word that starts at a ends before the next whitespace.
WordEnd(s, a, ends) == WordTo(s, a, IF ends = {} THEN Len(s) + 1 ELSE SetMin(ends))

WordFrom(s, a) == WordEnd(s, a, {i \in a..Len(s) : s[i] \in Whitespace})

WordsOf(s, starts) == IF starts = {} THEN <<>> ELSE WordFrom(s, SetMin(starts))

SplitWords(s) == WordsOf(s, {i \in 1..Len(s) : s[i] \notin Whitespace})

\* sep.join(parts)
RECURSIVE Join(_, _)
Join(parts, sep) ==
    IF parts = <<>> THEN <<>>
    ELSE IF Len(parts) = 1 THEN parts[1]
    ELSE parts[1] \o sep \o Join(Tail(parts), sep)

-----------------------------------------------------------------------------
(* Python bytes, base64 and the text codecs                                *)

\* The printable ASCII characters, code points 32..126 in order.
Printable ==
    <<
       " ", "!", "\"", "#", "$", "%", "&", "'", "(", ")", "*", "+",
       ",", "-", ".", "/", "0", "1", "2", "3", "4", "5", "6", "7",
       "8", "9", ":", ";", "<", "=", ">", "?", "@", "A", "B", "C",
       "D", "E", "F", "G", "H", "I", "J", "K", "L", "M", "N", "O",
       "P", "Q", "R", "S", "T", "U", "V", "W", "X", "Y", "Z", "[",
       "\\", "]", "^", "_", "U+96", "a", "b", "c", "d", "e", "f", "g",
       "h", "i", "j", "k", "l", "m", "n", "o", "p", "q", "r", "s",
       "t", "u", "v", "w", "x", "y", "z", "{", "|", "}", "~" >>

\* chr(n): printable ASCII and the ASCII whitespace controls are themselves,
\* every other code point is the token "U+<n>" (so is the grave accent, 96,
\* which a TLA+ string cannot hold).
Chr(n) ==
    IF n >= 32 /\ n <= 126 THEN Printable[n - 31]
    ELSE IF n = 9 THEN "\t"
    ELSE IF n = 10 THEN "\n"
    ELSE IF n = 12 THEN "\f"
    ELSE IF n = 13 THEN "\r"
    ELSE "U+" \o ToString(n)

\* ord(c) for a character of the ASCII range, -1 for any other character.
OrdMap == [c \in {Chr(n) : n \in 0..127} |-> CHOOSE n \in 0..127 : Chr(n) = c]

Ord(c) == IF c \in DOMAIN OrdMap THEN OrdMap[c] ELSE -1

B64Alphabet ==
    Chars("ABCDEFGHIJKLMNOPQRSTUVWXYZabcdefghijklmnopqrstuvwxyz0123456789+/")

\* binascii's table_a2b_base64: the 6-bit value of a digit, 64 for any other
\* character.
B64Map == [c \in {B64Alphabet[i] : i \in 1..64} |->
              (CHOOSE i \in 1..64 : B64Alphabet[i] = c) - 1]

B64Value(c) == IF c \in DOMAIN B64Map THEN B64Map[c] ELSE 64

Failure(exc, msg) == [ok |-> FALSE, exc |-> exc, msg |-> msg]

Success(v) == [ok |-> TRUE, value |-> v]

\* binascii.a2b_base64 in its default, non-strict mode: characters outside
\* the alphabet are skipped, a sufficient run of '=' after at least two
\* digits of a quad ends the input, and a quad left open at the end of the
\* input is an error.  i is the 1-based position of the next character.
RECURSIVE A2bBase64(_, _, _, _, _, _)
A2bBase64(s, i, quad_pos, leftchar, pads, out) ==
    IF i > Len(s)
    THEN IF quad_pos = 0 THEN Success(out)
         ELSE IF quad_pos = 1
         THEN Failure("binascii.Error", "Invalid base64-encoded string")
         ELSE Failure("binascii.Error", "Incorrect padding")
    ELSE IF s[i] = "="
    THEN IF quad_pos >= 2 /\ quad_pos + pads + 1 >= 4
         THEN Success(out)
         ELSE A2bBase64(s, i + 1, quad_pos, leftchar,
                        IF quad_pos >= 2 THEN pads + 1 ELSE pads, out)
    ELSE LET this_ch == B64Value(s[i])
         IN  IF this_ch >= 64
             THEN A2bBase64(s, i + 1, quad_pos, leftchar, pads, out)
             ELSE IF quad_pos = 0
             THEN A2bBase64(s, i + 1, 1, this_ch, 0, out)
             ELSE IF quad_pos = 1
             THEN A2bBase64(s, i + 1, 2, this_ch % 16, 0,
                            Append(out, leftchar * 4 + this_ch \div 16))
             ELSE IF quad_pos = 2
             THEN A2bBase64(s, i + 1, 3, this_ch % 4, 0,
                            Append(out, leftchar * 16 + this_ch \div 4))
             ELSE A2bBase64(s, i + 1, 0, 0, 0,
                            Append(out, leftchar * 64 + this_ch))

\* base64.b64decode(s) for a str s: a non-ASCII character is a ValueError,
\* then a2b_base64.
b64decode(s) ==
    IF \E i \in 1..Len(s) : Ord(s[i]) = -1
    THEN Failure("ValueError", "string argument should contain only ASCII characters")
    ELSE A2bBase64(s, 1, 0, 0, 0, <<>>)

\* The continuation bytes of a UTF-8 sequence.
IsCont(b) == b >= 128 /\ b <= 191

\* bytes.decode('utf-8'), strict: the decoded characters, or the failure
\* UnicodeDecodeError at the first ill-formed sequence.
RECURSIVE Utf8Decode(_, _, _)
Utf8Decode(b, i, out) ==
    LET n == Len(b) - i + 1
        bad == Failure("UnicodeDecodeError", "invalid utf-8")
    IN  IF n <= 0 THEN Success(out)
        ELSE IF b[i] < 128 THEN Utf8Decode(b, i + 1, Append(out, Chr(b[i])))
        ELSE IF b[i] >= 194 /\ b[i] <= 223
        THEN IF n >= 2 /\ IsCont(b[i + 1])
             THEN Utf8Decode(b, i + 2,
                             Append(out, Chr((b[i] - 192) * 64 + (b[i + 1] - 128))))
             ELSE bad
        ELSE IF b[i] >= 224 /\ b[i] <= 239
        THEN IF /\ n >= 3 /\ IsCont(b[i + 1]) /\ IsCont(b[i + 2])
                /\ (b[i] = 224 => b[i + 1] >= 160)
                /\ (b[i] = 237 => b[i + 1] <= 159)
             THEN Utf8Decode(b, i + 3,
                             Append(out, Chr((b[i] - 224) * 4096 + (b[i + 1] - 128) * 64
                                             + (b[i + 2] - 128))))
             ELSE bad
        ELSE IF b[i] >= 240 /\ b[i] <= 244
        THEN IF /\ n >= 4 /\ IsCont(b[i + 1]) /\ IsCont(b[i + 2]) /\ IsCont(b[i + 3])
                /\ (b[i] = 240 => b[i + 1] >= 144)
                /\ (b[i] = 244 => b[i + 1] <= 143)
             THEN Utf8Decode(b, i + 4,
                             Append(out, Chr((b[i] - 240) * 262144 + (b[i + 1] - 128) * 4096
                                             + (b[i + 2] - 128) * 64 + (b[i + 3] - 128))))
             ELSE bad
        ELSE bad

\* bytes.decode('latin-1'): every byte is the character of its value.
Latin1Decode(b) == [i \in 1..Len(b) |-> Chr(b[i])]

-----------------------------------------------------------------------------
(* DocumentProcessor: the text extractors                                  *)

\* What a third-party parser (python-docx, PyPDF2, olefile) does with the
\* bytes it is given is the environment's choice: it raises, or it yields a
\* text.  LibTexts are the texts it may yield.
LibTexts == {Chars("--- Page 1 ---\nquarterly results")}

LibOutcomes == {[raises |-> TRUE]} \cup {[raises |-> FALSE, text |-> t] : t \in LibTexts}

\* Only the .docx, .doc and .pdf branches call a parser: for any other name
\* its outcome is not part of the call.
LibOutcomesFor(extension) ==
    IF extension \in {Chars(".docx"), Chars(".doc"), Chars(".pdf")}
    THEN LibOutcomes
    ELSE {[raises |-> TRUE]}

DocNotice ==
    Chars("DOC file detected but full text extraction requires additional libraries.")
    \o Chars(" Please convert to DOCX format for better support.")

extract_text_from_docx(file_bytes, lib) ==
    IF lib.raises
    THEN Failure("Exception", "Failed to extract text from DOCX")
    ELSE Success(lib.text)

\* Any failure of olefile falls back to decoding the bytes as Latin-1, which
\* cannot fail.
extract_text_from_doc(file_bytes, lib) ==
    IF lib.raises
    THEN Success(Latin1Decode(file_bytes))
    ELSE Success(DocNotice)

extract_text_from_pdf(file_bytes, lib) ==
    IF lib.raises
    THEN Failure("Exception", "Failed to extract text from PDF")
    ELSE Success(lib.text)

\* The first encoding of utf-8, latin-1, cp1252, iso-8859-1 that decodes:
\* latin-1 decodes every byte string, so the later ones are never tried.
FirstDecoding(utf8, file_bytes) ==
    IF utf8.ok THEN utf8 ELSE Success(Latin1Decode(file_bytes))

extract_text_from_txt(file_bytes) ==
    FirstDecoding(Utf8Decode(file_bytes, 1, <<>>), file_bytes)

-----------------------------------------------------------------------------
(* Identifier normalisation and the file extension                         *)

\* upload_document's clean_phone.
with_plus_upload(clean_phone) ==
    IF ~StartsWith(clean_phone, <<"+">>)
    THEN IF StartsWith(clean_phone, <<"1">>) \/ Len(clean_phone) > 10
         THEN <<"+">> \o clean_phone
         ELSE <<"+", "1">> \o clean_phone
    ELSE clean_phone

clean_phone_upload(phone_number) ==
    with_plus_upload(Replace(Replace(Strip(phone_number), <<" ">>, <<>>), <<"-">>, <<>>))

\* process_document's clean_phone.
with_plus_process(clean_phone) ==
    IF ~StartsWith(clean_phone, <<"+">>)
    THEN IF StartsWith(clean_phone, <<"1">>) \/ Len(clean_phone) > 10
         THEN <<"+">> \o clean_phone
         ELSE <<"+", "1">> \o clean_phone
    ELSE clean_phone

clean_phone_process(phone_number) ==
    with_plus_process(Replace(Replace(Strip(phone_number), <<" ">>, <<>>), <<"-">>, <<>>))

\* A variant of the rule that prepends +1 to every identifier without a +.
with_plus_one(clean_phone) ==
    IF ~StartsWith(clean_phone, <<"+">>) THEN <<"+", "1">> \o clean_phone ELSE clean_phone

\* search_document's clean_phone.
with_plus_search(clean_phone) ==
    IF ~StartsWith(clean_phone, <<"+">>)
    THEN IF StartsWith(clean_phone, <<"1">>) \/ Len(clean_phone) > 10
         THEN <<"+">> \o clean_phone
         ELSE <<"+", "1">> \o clean_phone
    ELSE clean_phone

clean_phone_search(phone_number) ==
    with_plus_search(Replace(Replace(Strip(phone_number), <<" ">>, <<>>), <<"-">>, <<>>))

\* Path(filename).suffix: the final path component from its last dot on,
\* unless that dot is its first or its last character.
SuffixFrom(name, last) ==
    IF 1 < last /\ last < Len(name) THEN SubSeq(name, last, Len(name)) ELSE <<>>

SuffixOf(name, dots) == IF dots = {} THEN <<>> ELSE SuffixFrom(name, SetMax(dots))

NameSuffix(name) == SuffixOf(name, {i \in 1..Len(name) : name[i] = "."})

LastPart(parts) == IF parts = <<>> THEN <<>> ELSE parts[Len(parts)]

PathSuffix(filename) ==
    NameSuffix(LastPart(SelectSeq(Split(filename, <<"/">>),
                                  LAMBDA c : c # <<>> /\ c # <<".">>)))

\* str.upper() is the inverse table of str.lower().
UpperMap == [c \in {LowerCase[i] : i \in 1..26} |->
                UpperCase[CHOOSE i \in 1..26 : LowerCase[i] = c]]

UpperChar(c) == IF c \in DOMAIN UpperMap THEN UpperMap[c] ELSE c

Upper(s) == [i \in 1..Len(s) |-> UpperChar(s[i])]

-----------------------------------------------------------------------------
(* The session store: a dict from normalised identifier to session         *)

\* A variant of the assignment that starts from an empty dict.
StoreOnlyLatest(store, key, session) == [k \in {key} |-> session]

\* A variant of the assignment that never replaces the session of a key.
StoreKeepsFirst(store, key, session) ==
    [k \in DOMAIN store \cup {key} |-> IF k \in DOMAIN store THEN store[k] ELSE session]

\* A variant of the assignment that writes into the session a key already
\* has: the text and the bytes are replaced, the other fields are left.
StoreIntoSession(store, key, session) ==
    [k \in DOMAIN store \cup {key} |->
        IF k # key THEN store[k]
        ELSE IF k \in DOMAIN store
        THEN [store[k] EXCEPT !.extracted_text = session.extracted_text,
                              !.file_bytes = session.file_bytes]
        ELSE session]

\* document_storage[key] = session
StorePut(store, key, session) ==
    [k \in DOMAIN store \cup {key} |-> IF k = key THEN session ELSE store[k]]

-----------------------------------------------------------------------------
(* Responses                                                               *)

\* A call ends by returning a text, modelled as the template it fills and
\* the values it fills it with, or by raising.
Raise(exc) == [kind |-> "raise", exc |-> exc]

\* a / b of two ints: the exact quotient, kept as a fraction (its rendering
\* with one decimal is not modelled).
Quot(a, b) == [num |-> a, den |-> b]

\* The fields of a response that hold a str, and those that hold a list of
\* str.
StrFields == {"clean_phone", "filename", "summary", "clean_text", "preview",
              "search_query", "operation", "file_extension", "msg",
              "document_type", "language", "doc_id_match", "error_message",
              "document_info"}

StrListFields == {"key_points", "contexts", "imports", "function_lines", "key_sentences"}

\* The three replacements of add_cat_signature on one str, in its order.
Inject(str, cat_id, timestamp) ==
    Replace(Replace(Replace(str, Chars("Document Analysis"),
                            Chars("Document Analysis [CAT-") \o cat_id \o <<"]">>),
                    Chars("Statistics:"),
                    Chars("Statistics: (ID:") \o cat_id \o <<")">>),
            Chars("Content Analysis:"),
            Chars("Content Analysis: [CAT-") \o timestamp \o <<"]">>)

\* add_cat_signature: the headings of the template and every value quoted
\* in the text go through the replacements, and the signature block with
\* the call's identifier and time is appended.  headings are the headings
\* among "Document Analysis", "Statistics:", "Content Analysis:" that the
\* template itself prints.
add_cat_signature(result, cat_id, timestamp) ==
    [f \in DOMAIN result \cup {"signature"} |->
        IF f = "signature" THEN [cat_id |-> cat_id, timestamp |-> timestamp]
        ELSE IF f = "headings"
        THEN {[heading |-> h,
               tag |-> IF h = "Content Analysis:" THEN timestamp ELSE cat_id] :
              h \in result.headings}
        ELSE IF f \in StrFields THEN Inject(result[f], cat_id, timestamp)
        ELSE IF f \in StrListFields
        THEN [i \in 1..Len(result[f]) |-> Inject(result[f][i], cat_id, timestamp)]
        ELSE result[f]]

-----------------------------------------------------------------------------
(* process_document: the five reports                                      *)

\* word.lower().strip('.,!?;:"()[]{}')
Punctuation == {".", ",", "!", "?", ";", ":", "\"", "(", ")", "[", "]", "{", "}"}

NormalWord(word) == StripSet(Lower(word), Punctuation)

NormalWords(words) == [i \in 1..Len(words) |-> NormalWord(words[i])]

\* The values of a list in the order of their first occurrence: the keys of
\* a Counter.
RECURSIVE Distinct(_)
AppendNew(init, x) ==
    IF \E i \in 1..Len(init) : init[i] = x THEN init ELSE Append(init, x)

Distinct(xs) ==
    IF xs = <<>> THEN <<>>
    ELSE AppendNew(Distinct(SubSeq(xs, 1, Len(xs) - 1)), xs[Len(xs)])

Count(xs, x) == Cardinality({i \in 1..Len(xs) : xs[i] = x})

\* sum(len(x) for x in xs)
RECURSIVE SumLen(_)
SumLen(xs) == IF xs = <<>> THEN 0 ELSE Len(xs[1]) + SumLen(Tail(xs))

\* max(len(p.split()) for p in ps) if ps else 0
RECURSIVE MaxWords(_)
MaxWords(ps) ==
    IF ps = <<>> THEN 0 ELSE Max(Len(SplitWords(ps[1])), MaxWords(Tail(ps)))

\* any(k in str for k in keywords)
ContainsAny(str, keywords) == \E k \in keywords : Contains(str, Chars(k))

\* [p for p in text.split('\n\n') if p.strip()]
Paragraphs(text) == SelectSeq(Split(text, <<"\n", "\n">>), LAMBDA p : Strip(p) # <<>>)

\* xs[:n]
Take(xs, n) == SubSeq(xs, 1, Min(n, Len(xs)))

SummaryReport(clean_phone, text, filename, word_count, sentences) ==
    [kind |-> "text", template |-> "Document Summary", signed |-> TRUE,
     clean_phone |-> clean_phone, filename |-> filename,
     headings |-> {"Statistics:"},
     word_count |-> word_count, chars |-> Len(text),
     summary |-> Join(Take(sentences, 3), <<".", " ">>) \o <<".">>,
     sentences |-> Len(sentences),
     average |-> Quot(word_count, Len(sentences)),
     reading_time |-> word_count \div 200 + 1]

Summarize(clean_phone, text, filename) ==
    SummaryReport(clean_phone, text, filename, Len(SplitWords(text)),
                  Split(Replace(text, <<"\n">>, <<" ">>), <<".", " ">>))

\* The averages divide by len(paragraphs): a text without a non-blank
\* paragraph raises ZeroDivisionError while the report is being formatted.
AnalysisReport(clean_phone, text, filename, lines, paragraphs, words, text_lower) ==
    IF Len(paragraphs) = 0 THEN Raise("ZeroDivisionError")
    ELSE [kind |-> "text", template |-> "Document Analysis", signed |-> TRUE,
          clean_phone |-> clean_phone, filename |-> filename,
          headings |-> {"Document Analysis", "Content Analysis:"},
          lines |-> Len(lines), paragraphs |-> Len(paragraphs),
          words |-> Len(words), chars |-> Len(text),
          unique_words |-> Cardinality({NormalWord(words[i]) : i \in 1..Len(words)}),
          average |-> Quot(Len(words), Len(paragraphs)),
          longest |-> MaxWords(paragraphs),
          density |-> IF Len(words) > 50 * Len(paragraphs) THEN "High"
                      ELSE IF Len(words) > 20 * Len(paragraphs) THEN "Medium"
                      ELSE "Low",
          appears |-> IF ContainsAny(text_lower, {"therefore", "however",
                                                  "furthermore", "consequently"})
                      THEN "Technical/Formal"
                      ELSE IF ContainsAny(text_lower, {"like", "really",
                                                       "pretty", "kinda"})
                      THEN "Casual/Informal"
                      ELSE "Standard"]

Analyze(clean_phone, text, filename) ==
    AnalysisReport(clean_phone, text, filename, Split(text, <<"\n">>), Paragraphs(text),
                   SplitWords(text), Lower(text))

KeyPointWords == {"important", "key", "main", "significant", "critical",
                  "essential", "primary", "major", "conclusion", "result"}

\* [s.strip() for s in str.split('.') if len(s.strip()) > n]
StrippedOver(pieces, n) ==
    SelectSeq([i \in 1..Len(pieces) |-> Strip(pieces[i])], LAMBDA x : Len(x) > n)

KeyPointsReport(clean_phone, filename, sentences, important_sentences) ==
    [kind |-> "text", template |-> "Key Points Extracted", signed |-> TRUE,
     clean_phone |-> clean_phone, filename |-> filename,
     headings |-> {},
     key_points |-> Take(important_sentences, 5),
     analyzed |-> Len(sentences), identified |-> Len(important_sentences)]

\* The marked sentences with their full stop, or else the first five.
ImportantOrFirst(clean_phone, filename, sentences, marked) ==
    KeyPointsReport(clean_phone, filename, sentences,
                    IF marked # <<>> THEN [i \in 1..Len(marked) |-> marked[i] \o <<".">>]
                    ELSE Take(sentences, 5))

KeyPointsOf(clean_phone, filename, sentences) ==
    ImportantOrFirst(clean_phone, filename, sentences,
                     SelectSeq(Take(sentences, 10),
                               LAMBDA x : ContainsAny(Lower(x), KeyPointWords)))

ExtractKeyPoints(clean_phone, text, filename) ==
    KeyPointsOf(clean_phone, filename,
                StrippedOver(Split(Replace(text, <<"\n">>, <<" ">>), <<".">>), 20))

\* Counter.most_common(n): by falling count, first-counted first among
\* equal counts.  keys are the distinct words in counting order.
RECURSIVE MostCommon(_, _, _)
MostCommonFrom(keys, xs, n, best) ==
    <<[word |-> keys[best], count |-> Count(xs, keys[best])]>>
    \o MostCommon(SubSeq(keys, 1, best - 1) \o SubSeq(keys, best + 1, Len(keys)), xs, n - 1)

MostCommon(keys, xs, n) ==
    IF n = 0 \/ keys = <<>> THEN <<>>
    ELSE MostCommonFrom(keys, xs, n,
            CHOOSE i \in 1..Len(keys) :
                /\ \A j \in 1..Len(keys) : Count(xs, keys[i]) >= Count(xs, keys[j])
                /\ \A j \in 1..(i - 1) : Count(xs, keys[j]) < Count(xs, keys[i]))

\* The average word length divides by len(words): a text without a word
\* raises ZeroDivisionError while the report is being formatted.
WordCountReport(clean_phone, text, filename, words, normal, keys) ==
    IF Len(words) = 0 THEN Raise("ZeroDivisionError")
    ELSE [kind |-> "text", template |-> "Word Count Analysis", signed |-> TRUE,
          clean_phone |-> clean_phone, filename |-> filename,
          headings |-> {"Statistics:"},
          words |-> Len(words), unique_words |-> Len(keys),
          chars |-> Len(text),
          chars_no_spaces |-> Len(Replace(text, <<" ">>, <<>>)),
          most_common |-> MostCommon(keys, normal, 10),
          reading_time |-> Len(words) \div 200 + 1,
          average |-> Quot(SumLen(words), Len(words))]

WordFrequencies(clean_phone, text, filename, words, normal) ==
    WordCountReport(clean_phone, text, filename, words, normal, Distinct(normal))

WordsCounted(clean_phone, text, filename, words) ==
    WordFrequencies(clean_phone, text, filename, words, NormalWords(words))

WordCount(clean_phone, text, filename) ==
    WordsCounted(clean_phone, text, filename, SplitWords(text))

CleanedReport(clean_phone, filename, lines, clean_lines, clean_text) ==
    [kind |-> "text", template |-> "Cleaned Document", signed |-> TRUE,
     clean_phone |-> clean_phone, filename |-> filename,
     headings |-> {},
     clean_text |-> Slice(clean_text, 0, 2000)
                    \o (IF Len(clean_text) > 2000 THEN Chars("...") ELSE <<>>),
     original_lines |-> Len(lines), cleaned_lines |-> Len(clean_lines)]

CleanLines(clean_phone, filename, lines, clean_lines) ==
    CleanedReport(clean_phone, filename, lines, clean_lines,
                  Join(clean_lines, <<"\n", "\n">>))

LinesOf(clean_phone, filename, lines) ==
    CleanLines(clean_phone, filename, lines, StrippedOver(lines, 0))

FormatClean(clean_phone, text, filename) ==
    LinesOf(clean_phone, filename, Split(text, <<"\n">>))

-----------------------------------------------------------------------------
(* search_document: the scan                                               *)

\* The cap on the matches one search collects.
MaxMatches == 10

\* The characters of context kept on each side of a match.
ContextChars == 50

\* The while loop: find the query from start on, record the position and
\* its context, restart one character past the match, and stop at the cap.
\* capped tells that the loop was left through the cap.
RECURSIVE SearchScan(_, _, _, _, _, _)
ScanOn(text, search_query, search_text, query, pos, found) ==
    IF Len(found) >= MaxMatches
    THEN [occurrences |-> found, capped |-> TRUE]
    ELSE SearchScan(text, search_query, search_text, query, pos + 1, found)

ScanAt(text, search_query, search_text, query, pos, occurrences) ==
    IF pos = -1 THEN [occurrences |-> occurrences, capped |-> FALSE]
    ELSE ScanOn(text, search_query, search_text, query, pos,
                Append(occurrences,
                       [position |-> pos,
                        context |-> Slice(text, Max(0, pos - ContextChars),
                                          Min(Len(text),
                                              pos + Len(search_query) + ContextChars))]))

SearchScan(text, search_query, search_text, query, start, occurrences) ==
    ScanAt(text, search_query, search_text, query, Find(search_text, query, start),
           occurrences)

\* occurrences as search_document collects them for a stored text.
Occurrences(text, search_query, case_sensitive) ==
    SearchScan(text, search_query,
               IF case_sensitive THEN text ELSE Lower(text),
               IF case_sensitive THEN search_query ELSE Lower(search_query),
               0, <<>>)

\* A variant of the note's condition that asks for more than ten.
TruncationNoteAbove(occurrences) == Len(occurrences) > 10

\* The note under the results.
TruncationNote(occurrences) == Len(occurrences) >= 10

\* The report of a scan, before the signature.  capped is not printed: it
\* records that the scan left its loop at the cap rather than at a failed
\* find.
ScanReport(clean_phone, filename, search_query, scan) ==
    IF scan.occurrences = <<>>
    THEN [kind |-> "text", template |-> "No matches found", signed |-> FALSE,
          clean_phone |-> clean_phone, filename |-> filename,
          search_query |-> search_query]
    ELSE [kind |-> "text", template |-> "Search Results", signed |-> TRUE,
          clean_phone |-> clean_phone, filename |-> filename,
          search_query |-> search_query, headings |-> {},
          found |-> Len(scan.occurrences),
          contexts |-> [i \in 1..Len(scan.occurrences) |-> scan.occurrences[i].context],
          note |-> TruncationNote(scan.occurrences),
          capped |-> scan.capped]

SearchReport(clean_phone, text, filename, search_query, case_sensitive) ==
    ScanReport(clean_phone, filename, search_query,
               Occurrences(text, search_query, case_sensitive))

-----------------------------------------------------------------------------
(* The bodies of the three session tools                                   *)

NoDocument(clean_phone) ==
    [kind |-> "text", template |-> "No document found", signed |-> FALSE,
     clean_phone |-> clean_phone, hint |-> "upload a document first"]

\* A variant of the list without its last operation.
FourOperations == <<"summarize", "analyze", "extract_key_points", "word_count">>

\* The operations the unknown-operation message offers.
AvailableOperations ==
    <<"summarize", "analyze", "extract_key_points", "word_count", "format_clean">>

\* The if/elif chain over operation.
ProcessDispatch(clean_phone, text, filename, operation) ==
    IF operation = "summarize" THEN Summarize(clean_phone, text, filename)
    ELSE IF operation = "analyze" THEN Analyze(clean_phone, text, filename)
    ELSE IF operation = "extract_key_points" THEN ExtractKeyPoints(clean_phone, text, filename)
    ELSE IF operation = "word_count" THEN WordCount(clean_phone, text, filename)
    ELSE IF operation = "format_clean" THEN FormatClean(clean_phone, text, filename)
    ELSE [kind |-> "text", template |-> "Unknown operation", signed |-> FALSE,
          operation |-> Chars(operation), available |-> AvailableOperations]

\* except Exception as e: the error text; nothing was stored.
UploadError(msg) ==
    [stored |-> FALSE,
     result |-> [kind |-> "text", template |-> "Error processing document",
                 signed |-> FALSE, msg |-> Chars(msg)]]

\* A variant that creates the session before it looks at the extraction.
UploadStoresFirst(clean_phone, file_bytes, filename, file_extension, doc_id, extracted) ==
    [stored |-> TRUE,
     key |-> clean_phone,
     session |-> [doc_id |-> doc_id, filename |-> filename, file_type |-> file_extension,
                  extracted_text |-> IF extracted.ok THEN extracted.value ELSE <<>>,
                  file_bytes |-> file_bytes, phone_number |-> clean_phone,
                  upload_time |-> "now"],
     result |-> IF extracted.ok
                THEN [kind |-> "text", template |-> "Document Uploaded Successfully",
                      signed |-> TRUE, headings |-> {}, clean_phone |-> clean_phone,
                      filename |-> filename, doc_id |-> doc_id,
                      file_extension |-> Upper(file_extension),
                      size |-> Len(extracted.value), preview |-> extracted.value]
                ELSE UploadError(extracted.msg).result]

\* The store assignment and the report, once the text is extracted.
UploadExtracted(clean_phone, file_bytes, filename, file_extension, doc_id, extracted) ==
    IF ~extracted.ok THEN UploadError(extracted.msg)
    ELSE [stored |-> TRUE,
          key |-> clean_phone,
          session |-> [doc_id |-> doc_id, filename |-> filename,
                       file_type |-> file_extension,
                       extracted_text |-> extracted.value,
                       file_bytes |-> file_bytes,
                       phone_number |-> clean_phone, upload_time |-> "now"],
          result |-> [kind |-> "text", template |-> "Document Uploaded Successfully",
                      signed |-> TRUE, headings |-> {},
                      clean_phone |-> clean_phone, filename |-> filename,
                      doc_id |-> doc_id, file_extension |-> Upper(file_extension),
                      size |-> Len(extracted.value),
                      preview |-> IF Len(extracted.value) > 500
                                  THEN Slice(extracted.value, 0, 500) \o Chars("...")
                                  ELSE extracted.value]]

\* The if/elif chain over the extension; its else returns before the store.
UploadDecoded(clean_phone, decoded, filename, file_extension, doc_id, lib) ==
    IF ~decoded.ok THEN UploadError(decoded.msg)
    ELSE IF file_extension = Chars(".docx")
    THEN UploadExtracted(clean_phone, decoded.value, filename, file_extension, doc_id,
                         extract_text_from_docx(decoded.value, lib))
    ELSE IF file_extension = Chars(".doc")
    THEN UploadExtracted(clean_phone, decoded.value, filename, file_extension, doc_id,
                         extract_text_from_doc(decoded.value, lib))
    ELSE IF file_extension = Chars(".pdf")
    THEN UploadExtracted(clean_phone, decoded.value, filename, file_extension, doc_id,
                         extract_text_from_pdf(decoded.value, lib))
    ELSE IF file_extension = Chars(".txt")
    THEN UploadExtracted(clean_phone, decoded.value, filename, file_extension, doc_id,
                         extract_text_from_txt(decoded.value))
    ELSE [stored |-> FALSE,
          result |-> [kind |-> "text", template |-> "Unsupported file format",
                      signed |-> FALSE, file_extension |-> file_extension,
                      supported |-> <<".docx", ".doc", ".pdf", ".txt">>]]

\* The body of upload_document up to the store: what it returns, and the
\* session it stores when it gets that far.
UploadBody(document_data, filename, phone_number, doc_id, lib) ==
    UploadDecoded(clean_phone_upload(phone_number), b64decode(document_data), filename,
                  Lower(PathSuffix(filename)), doc_id, lib)

\* The store after the upload: the session is assigned only on the path
\* that reaches the assignment.
StoreAfterUpload(store, body) ==
    IF body.stored THEN StorePut(store, body.key, body.session) ELSE store

\* return add_cat_signature(result) on the paths that sign, return result on
\* the others; a raised exception leaves the tool as it is.
Returned(result, cat_id, timestamp) ==
    IF result.kind = "text" /\ result.signed
    THEN add_cat_signature(result, cat_id, timestamp)
    ELSE result

-----------------------------------------------------------------------------
(* The helpers of the direct tools                                         *)

\* A variant of the classifier that tests the academic keywords before
\* the code keywords.
DocumentTypeAcademicFirst(text_lower) ==
    IF ContainsAny(text_lower, {"abstract", "introduction", "methodology", "bibliography"})
    THEN Chars("Research Paper")
    ELSE IF ContainsAny(text_lower, {"#include", "int main", "void main", "printf", "scanf"})
    THEN Chars("C/C++ Code")
    ELSE IF ContainsAny(text_lower, {"def ", "import ", "print(", "if __name__"})
    THEN Chars("Python Code")
    ELSE IF ContainsAny(text_lower, {"function", "var ", "let ", "console.log", "document."})
    THEN Chars("JavaScript Code")
    ELSE IF ContainsAny(text_lower, {"experiment", "procedure", "results", "conclusion",
                                     "hypothesis"})
    THEN Chars("Lab Report")
    ELSE IF ContainsAny(text_lower, {"meeting", "agenda", "action items", "quarterly"})
    THEN Chars("Business Document")
    ELSE Chars("General Document")

\* The first category, in the order of the if/elif chain, one of whose
\* keywords occurs in the lower-cased text.
DocumentTypeOf(text_lower) ==
    IF ContainsAny(text_lower, {"#include", "int main", "void main", "printf", "scanf"})
    THEN Chars("C/C++ Code")
    ELSE IF ContainsAny(text_lower, {"def ", "import ", "print(", "if __name__"})
    THEN Chars("Python Code")
    ELSE IF ContainsAny(text_lower, {"function", "var ", "let ", "console.log", "document."})
    THEN Chars("JavaScript Code")
    ELSE IF ContainsAny(text_lower, {"abstract", "introduction", "methodology",
                                     "bibliography"})
    THEN Chars("Research Paper")
    ELSE IF ContainsAny(text_lower, {"experiment", "procedure", "results", "conclusion",
                                     "hypothesis"})
    THEN Chars("Lab Report")
    ELSE IF ContainsAny(text_lower, {"meeting", "agenda", "action items", "quarterly"})
    THEN Chars("Business Document")
    ELSE Chars("General Document")

_detect_document_type(text) == DocumentTypeOf(Lower(text))

\* The code branch: the lines, those that are not blank and not a //
\* comment, and those that hold a definition keyword.
CodeAnalysis(lines, doc_type) ==
    [analysis |-> "Code Analysis",
     total_lines |-> Len(lines),
     code_lines |-> Len(SelectSeq(lines, LAMBDA l : /\ Strip(l) # <<>>
                                                    /\ ~StartsWith(Strip(l), Chars("//")))),
     functions |-> Len(SelectSeq(lines, LAMBDA l :
                           ContainsAny(l, {"def ", "function ", "int ", "void "}))),
     language |-> doc_type]

\* The academic branch: the lines that name a section.
AcademicStructure(sections, doc_type) ==
    [analysis |-> "Academic Structure",
     language |-> doc_type,
     sections |-> Len(sections),
     academic_format |-> IF Len(sections) > 2 THEN "Yes" ELSE "Partial"]

\* The general branch: avg_words = len(text.split()) / max(len(paragraphs), 1).
GeneralAnalysis(words, paragraphs) ==
    [analysis |-> "General Analysis",
     paragraphs |-> paragraphs,
     average |-> Quot(words, Max(paragraphs, 1)),
     style |-> IF words > 20 * Max(paragraphs, 1) THEN "Formal" ELSE "Casual"]

_analyze_content_by_type(text, doc_type) ==
    IF Contains(doc_type, Chars("Code"))
    THEN CodeAnalysis(Split(text, <<"\n">>), doc_type)
    ELSE IF Contains(doc_type, Chars("Research")) \/ Contains(doc_type, Chars("Lab"))
    THEN AcademicStructure(SelectSeq(Split(text, <<"\n">>), LAMBDA l :
                               ContainsAny(Lower(l), {"introduction", "method", "result",
                                                      "conclusion", "abstract"})),
                           doc_type)
    ELSE GeneralAnalysis(Len(SplitWords(text)), Len(Paragraphs(text)))

\* The first, the middle and the last sentence, or the head of the text
\* when it has at most three sentences.
SummaryOf(text, sentences) ==
    IF Len(sentences) <= 3
    THEN IF Len(text) > 300 THEN Slice(text, 0, 300) \o Chars("...") ELSE text
    ELSE Join(<<sentences[1], sentences[(Len(sentences) \div 2) + 1],
                sentences[Len(sentences)]>>, <<".", " ">>) \o <<".">>

_generate_summary(text) ==
    SummaryOf(text, StrippedOver(Split(Replace(text, <<"\n">>, <<" ">>), <<".">>), 20))

ImportanceKeywords ==
    {"important", "key", "main", "significant", "critical", "essential", "primary",
     "major", "conclusion", "result", "summary", "therefore", "however", "furthermore",
     "consequently", "finally"}

WithFullStop(xs) == [i \in 1..Len(xs) |-> xs[i] \o <<".">>]

\* The marked sentences among the first 15, or else the first 3; at most 5.
KeyPointsAmong(sentences, marked) ==
    Take(WithFullStop(IF marked # <<>> THEN marked ELSE Take(sentences, 3)), 5)

_extract_key_points(text) ==
    KeyPointsAmong(StrippedOver(Split(Replace(text, <<"\n">>, <<" ">>), <<".">>), 20),
                   SelectSeq(Take(StrippedOver(Split(Replace(text, <<"\n">>, <<" ">>),
                                                     <<".">>), 20), 15),
                             LAMBDA x : ContainsAny(Lower(x), ImportanceKeywords)))

\* The stripped lines that open an import and those that open a function.
CodeStructure(lines) ==
    [structure |-> "Code Structure",
     imports |-> Take(SelectSeq(lines, LAMBDA l :
                          /\ ~(StartsWith(l, Chars("def ")) \/ StartsWith(l, Chars("function ")))
                          /\ (StartsWith(l, Chars("import ")) \/ StartsWith(l, Chars("#include")))),
                      5),
     function_lines |-> Take(SelectSeq(lines, LAMBDA l :
                                 StartsWith(l, Chars("def ")) \/ StartsWith(l, Chars("function "))),
                             5)]

_extract_structured_data(text, doc_type) ==
    IF Contains(doc_type, Chars("Code"))
    THEN CodeStructure([i \in 1..Len(Split(text, <<"\n">>)) |->
                            Strip(Split(text, <<"\n">>)[i])])
    ELSE [structure |-> "Key Information",
          key_sentences |-> WithFullStop(Take(StrippedOver(Split(text, <<".">>), 30), 3))]

\* The analysis text of _analyze_text, for the type it detected.
TextAnalysis(text, doc_type) ==
    [doc_type |-> doc_type,
     words |-> Len(SplitWords(text)),
     sentences |-> Len(Split(text, <<".">>)),
     paragraphs |-> Len(Paragraphs(text)),
     chars |-> Len(text),
     content |-> _analyze_content_by_type(text, doc_type),
     summary |-> _generate_summary(text)]

_analyze_text(text) == TextAnalysis(text, _detect_document_type(text))

-----------------------------------------------------------------------------
(* The bodies of the three direct tools                                    *)

\* The code point of a character up to U+00FF.
CodePointMap == [c \in {Chr(n) : n \in 0..255} |-> CHOOSE n \in 0..255 : Chr(n) = c]

\* str.encode('utf-8') over the characters up to U+00FF.
RECURSIVE Utf8Encode(_)
Utf8Encode(str) ==
    IF str = <<>> THEN <<>>
    ELSE IF CodePointMap[Head(str)] < 128
    THEN <<CodePointMap[Head(str)]>> \o Utf8Encode(Tail(str))
    ELSE <<192 + (CodePointMap[Head(str)] \div 64), 128 + (CodePointMap[Head(str)] % 64)>>
         \o Utf8Encode(Tail(str))

SupportedFormats == <<"docx", "doc", "pdf", "txt", "rtf", "odt">>

\* file_type == "auto": the first supported format, in list order, that
\* occurs in document_id.lower(); "docx" when none does.
RECURSIVE DetectedFormat(_, _)
DetectedFormat(id_lower, i) ==
    IF i > Len(SupportedFormats) THEN Chars("docx")
    ELSE IF Contains(id_lower, Chars(SupportedFormats[i])) THEN Chars(SupportedFormats[i])
    ELSE DetectedFormat(id_lower, i + 1)

\* The name NamedTemporaryFile gives the file: a fresh name with the suffix.
TempPath(file_type) == Chars("/tmp/tmpk3x9_q2a.") \o file_type

\* The if/elif chain of _extract_text_from_file over the suffix; any other
\* suffix is read as text.
ExtractByExtension(file_extension, file_bytes, lib) ==
    IF file_extension = Chars(".docx") THEN extract_text_from_docx(file_bytes, lib)
    ELSE IF file_extension = Chars(".doc") THEN extract_text_from_doc(file_bytes, lib)
    ELSE IF file_extension = Chars(".pdf") THEN extract_text_from_pdf(file_bytes, lib)
    ELSE extract_text_from_txt(file_bytes)

\* file_bytes is what the file holds: the bytes the tool wrote to it.
_extract_text_from_file(file_path, file_bytes, lib) ==
    ExtractByExtension(Lower(PathSuffix(file_path)), file_bytes, lib)

DirectText(template, fields) ==
    [f \in {"kind", "template", "signed"} \cup DOMAIN fields |->
        IF f = "kind" THEN "text"
        ELSE IF f = "template" THEN template
        ELSE IF f = "signed" THEN FALSE
        ELSE fields[f]]

\* A variant of the handler that reports every failure as a failure.
DirectFailedOutright(document_id, content, file_type, is_binary, msg) ==
    DirectText("Failed to process binary file",
               [file_type |-> file_type, msg |-> Chars(msg)])

\* except Exception as e, around the temporary file and the extraction: the
\* plain-text content is analysed as it is, decoded content is reported as
\* failed.
DirectFailed(document_id, content, file_type, is_binary, msg) ==
    IF ~is_binary
    THEN DirectText("Text Content Analyzed",
                    [document_id |-> document_id, analysis |-> _analyze_text(content)])
    ELSE DirectText("Failed to process binary file",
                    [file_type |-> file_type, msg |-> Chars(msg)])

\* The inner try: extraction and analysis; its finally has unlinked the
\* file on both outcomes.
DirectExtracted(document_id, content, file_type, is_binary, extracted) ==
    IF ~extracted.ok
    THEN DirectFailed(document_id, content, file_type, is_binary, extracted.msg)
    ELSE DirectText("Document Processed Successfully",
                    [document_id |-> document_id, file_type |-> Upper(file_type),
                     analysis |-> _analyze_text(extracted.value),
                     content |-> IF Len(extracted.value) > 1000
                                 THEN Slice(extracted.value, 0, 1000) \o Chars("...")
                                 ELSE extracted.value])

\* The file is created with delete=False and written inside the with block.
\* A write that fails leaves that block before the inner try is entered, so
\* no finally unlinks the file: it is left behind.
DirectWritten(document_id, content, file_type, is_binary, decoded_content, lib, write_ok) ==
    IF ~write_ok
    THEN [left_behind |-> 1,
          result |-> DirectFailed(document_id, content, file_type, is_binary, "OSError")]
    ELSE [left_behind |-> 0,
          result |-> DirectExtracted(document_id, content, file_type, is_binary,
                                     _extract_text_from_file(TempPath(file_type),
                                                             decoded_content, lib))]

\* The content is decoded as base64 when it decodes, and is otherwise
\* taken as plain text.
DirectDecoded(document_id, content, file_type, decoded, lib, write_ok) ==
    DirectWritten(document_id, content, file_type, decoded.ok,
                  IF decoded.ok THEN decoded.value ELSE Utf8Encode(content),
                  lib, write_ok)

DirectTyped(document_id, content, file_type, lib, write_ok) ==
    IF \A i \in 1..Len(SupportedFormats) : Lower(file_type) # Chars(SupportedFormats[i])
    THEN [left_behind |-> 0,
          result |-> DirectText("Unsupported file type",
                                [file_type |-> file_type, supported |-> SupportedFormats])]
    ELSE IF content # <<>>
    THEN DirectDecoded(document_id, content, file_type, b64decode(content), lib, write_ok)
    ELSE [left_behind |-> 0,
          result |-> DirectText("Unable to process document",
                                [document_id |-> document_id])]

\* The body of handle_document_direct: what it returns and the number of
\* temporary files it leaves behind.
DirectBody(document_id, content, file_type, lib, write_ok) ==
    IF content = <<>> /\ document_id = <<>>
    THEN [left_behind |-> 0,
          result |-> DirectText("No document content or ID provided", <<>>)]
    ELSE DirectTyped(document_id, content,
                     IF file_type = Chars("auto")
                     THEN DetectedFormat(Lower(document_id), 1)
                     ELSE file_type,
                     lib, write_ok)

\* A signed text of process_any_document or handle_preprocessing_failure.
SignedText(template, headings, fields) ==
    [f \in {"kind", "template", "signed", "headings"} \cup DOMAIN fields |->
        IF f = "kind" THEN "text"
        ELSE IF f = "template" THEN template
        ELSE IF f = "signed" THEN TRUE
        ELSE IF f = "headings" THEN headings
        ELSE fields[f]]

\* The fields of two parts of one text.
Merge(r1, r2) ==
    [f \in DOMAIN r1 \cup DOMAIN r2 |-> IF f \in DOMAIN r2 THEN r2[f] ELSE r1[f]]

\* except Exception as e: the error text, signed.
AnyError(msg) == SignedText("Error analyzing content", {}, [msg |-> Chars(msg)])

\* text_content.split("Document ID = ")[1].split()[0]: the first word after
\* the marker; [0] of an empty list raises IndexError.
DocIdMatch(document_type, words) ==
    IF words = <<>> THEN AnyError("list index out of range")
    ELSE SignedText("Document Metadata Received", {},
                    [doc_id_match |-> words[1], document_type |-> document_type])

MetadataResponse(text_content, document_type) ==
    IF Contains(text_content, Chars("Document ID = "))
    THEN DocIdMatch(document_type,
                    SplitWords(Split(text_content, Chars("Document ID = "))[2]))
    ELSE SignedText("Document Metadata Received", {},
                    [doc_id_match |-> Chars("unknown"), document_type |-> document_type])

\* The four branches over analysis_type, for the document type in use.
AnyAnalysis(text_content, document_type, analysis_type) ==
    IF analysis_type = "comprehensive"
    THEN SignedText("Document Analysis Complete",
                    {"Document Analysis", "Statistics:", "Content Analysis:"},
                    Merge([document_type |-> document_type,
                           word_count |-> Len(SplitWords(text_content)),
                           char_count |-> Len(text_content),
                           line_count |-> Len(SelectSeq(Split(text_content, <<"\n">>),
                                                        LAMBDA l : Strip(l) # <<>>)),
                           key_points |-> _extract_key_points(text_content),
                           preview |-> IF Len(text_content) > 800
                                       THEN Slice(text_content, 0, 800) \o Chars("...")
                                       ELSE text_content],
                          _analyze_content_by_type(text_content, document_type)))
    ELSE IF analysis_type = "summary"
    THEN SignedText("Document Summary (type)", {},
                    [document_type |-> document_type,
                     summary |-> _generate_summary(text_content)])
    ELSE IF analysis_type = "extract"
    THEN SignedText("Key Information Extracted", {},
                    Merge([document_type |-> document_type],
                          _extract_structured_data(text_content, document_type)))
    ELSE SignedText("Quick Analysis", {},
                    [document_type |-> document_type,
                     words |-> Len(SplitWords(text_content)),
                     chars |-> Len(text_content)])

\* The body of process_any_document up to its signature.
AnyBody(text_content, document_type, analysis_type) ==
    IF text_content = <<>> THEN SignedText("No content provided", {}, <<>>)
    ELSE IF /\ Contains(text_content, Chars("Document Received!"))
            /\ Contains(text_content, Chars("Document ID ="))
    THEN MetadataResponse(text_content, document_type)
    ELSE AnyAnalysis(text_content,
                     IF document_type = Chars("auto")
                     THEN _detect_document_type(text_content)
                     ELSE document_type,
                     analysis_type)

\* The body of handle_preprocessing_failure up to its signature.
FailureBody(error_message, document_info) ==
    SignedText("Document Processing Alternative Available", {},
               [error_message |-> error_message, document_info |-> document_info])

-----------------------------------------------------------------------------
(* The calls the model makes                                               *)

\* The longest run of one letter among the uploaded documents: the runs of
\* MaxMatches .. MaxRun letters stand at the search cap and beyond it.
MaxRun == 11

RunText(n) == [i \in 1..n |-> "a"]

\* base64 of RunText(n): "aaa" is "YWFh", "a" is "YQ==", "aa" is "YWE=".
RECURSIVE RunData(_)
RunData(n) ==
    IF n = 0 THEN <<>>
    ELSE IF n = 1 THEN Chars("YQ==")
    ELSE IF n = 2 THEN Chars("YWE=")
    ELSE Chars("YWFh") \o RunData(n - 3)

\* base64 of: the empty file; " \n"; "Foo bar foo baz FOO"; the two lines
\* "def f(x):" and "    return x"; and the runs.
TextData ==
    {<<>>, Chars("IAo="), Chars("Rm9vIGJhciBmb28gYmF6IEZPTw=="),
     Chars("ZGVmIGYoeCk6CiAgICByZXR1cm4geA==")}
    \cup {RunData(n) : n \in MaxMatches..MaxRun}

\* Not base64: the last quad is left open.
BadData == {Chars("hello world")}

\* The uploads: every text as a.txt, one of them under other names and
\* formats, and the undecodable payload.
Uploads ==
    {[document_data |-> d, filename |-> Chars("a.txt")] : d \in TextData \cup BadData}
    \cup {[document_data |-> Chars("Rm9vIGJhciBmb28gYmF6IEZPTw=="), filename |-> Chars(f)] :
          f \in {"b.TXT", "report.pdf", "notes.docx", "old.doc", "tool.exe"}}

\* Two spellings of one identifier, and the default identifier.
Phones == {Chars("+1 555-0100"), Chars("5550100"), Chars("default_user")}

\* The upload calls: every upload under the two spellings, and the a.txt
\* uploads of the empty file, of the prose and of the undecodable payload
\* under the default identifier.
UploadCalls ==
    {c \in Uploads \X Phones :
        \/ c[2] # Chars("default_user")
        \/ /\ c[1].filename = Chars("a.txt")
           /\ c[1].document_data \in {<<>>, Chars("Rm9vIGJhciBmb28gYmF6IEZPTw==")} \cup BadData}

Operations ==
    {"summarize", "analyze", "extract_key_points", "word_count", "format_clean",
     "translate"}

Queries == {<<>>, Chars("a"), Chars("foo"), Chars("zz")}

DocIds == {Chars("0f3a9c1e")}

CatIds == {Chars("CAT1A2B"), Chars("CAT3C4D")}

Timestamps == {Chars("09:05")}

\* The calls of handle_document_direct: nothing given; an id alone; a type
\* outside the list; base64 content for a parser; plain text as .txt; plain
\* text for a parser.
DirectCalls ==
    {[document_id |-> Chars(c[1]), content |-> Chars(c[2]), file_type |-> Chars(c[3])] :
     c \in {<<"", "", "auto">>, <<"memo", "", "auto">>, <<"memo", "Rm9v", "exe">>,
            <<"report.pdf", "Rm9v", "auto">>, <<"memo", "Foo bar foo", "TXT">>,
            <<"notes.docx", "Foo bar foo", "auto">>}}

\* The calls of process_any_document: no text; the placeholder with an id,
\* and with nothing after the marker; code and prose under each analysis.
AnyCalls ==
    {[text_content |-> Chars(c[1]), document_type |-> Chars(c[2]), analysis_type |-> c[3]] :
     c \in {<<"", "auto", "comprehensive">>,
            <<"Document Received! Document ID = 42 ok", "auto", "comprehensive">>,
            <<"Document Received! Document ID = ", "auto", "summary">>,
            <<"def f(x):\n    return x", "auto", "comprehensive">>,
            <<"def f(x):\n    return x", "auto", "extract">>,
            <<"Meeting agenda. Statistics: none", "Notes", "comprehensive">>,
            <<"Meeting agenda. Statistics: none", "auto", "summary">>,
            <<"Meeting agenda. Statistics: none", "auto", "quick">>}}

FailureCalls ==
    {[error_message |-> Chars("preprocessing timed out"), document_info |-> <<>>]}

\* The most temporary files the model lets failed writes leave behind.
MaxLeftBehind == 1

-----------------------------------------------------------------------------
(* The pure parts of the tools over the model's calls.  The model checker  *)
(* evaluates a constant once, so each step of the state machine looks its  *)
(* values up here instead of computing them again in every state.          *)

\* The body with the result as the tool returns it.
UploadSigned(body, cat_id, timestamp) ==
    [f \in DOMAIN body |->
        IF f = "result" THEN Returned(body.result, cat_id, timestamp) ELSE body[f]]

\* upload_document up to its return, for every upload the model makes.
UploadReturn ==
    [u \in Uploads, p \in Phones, doc_id \in DocIds, lib \in LibOutcomes,
     cat_id \in CatIds, timestamp \in Timestamps |->
        UploadSigned(UploadBody(u.document_data, u.filename, p, doc_id, lib),
                     cat_id, timestamp)]

\* What process_document and search_document read of a session, for the
\* sessions the uploads can store.
StoredDocuments ==
    {[extracted_text |-> UploadReturn[x].session.extracted_text,
      filename |-> UploadReturn[x].session.filename] :
     x \in {y \in DOMAIN UploadReturn : UploadReturn[y].stored}}

\* The identifier upload_document derives from each phone_number.
CleanPhoneUpload == [p \in Phones |-> clean_phone_upload(p)]

\* The identifier each tool derives from each phone_number.
CleanPhoneProcess == [p \in Phones |-> clean_phone_process(p)]

CleanPhoneSearch == [p \in Phones |-> clean_phone_search(p)]

\* process_document from the session it found to its return.
ProcessReturn ==
    [clean_phone \in {CleanPhoneProcess[p] : p \in Phones}, doc_data \in StoredDocuments,
     operation \in Operations, cat_id \in CatIds, timestamp \in Timestamps |->
        Returned(ProcessDispatch(clean_phone, doc_data.extracted_text, doc_data.filename,
                                 operation),
                 cat_id, timestamp)]

\* search_document from the session it found to its return.
SearchReturn ==
    [clean_phone \in {CleanPhoneSearch[p] : p \in Phones}, doc_data \in StoredDocuments,
     search_query \in Queries, case_sensitive \in BOOLEAN,
     cat_id \in CatIds, timestamp \in Timestamps |->
        Returned(SearchReport(clean_phone, doc_data.extracted_text, doc_data.filename,
                              search_query, case_sensitive),
                 cat_id, timestamp)]

\* handle_document_direct up to its return.
DirectReturn ==
    [c \in DirectCalls, lib \in LibOutcomes, write_ok \in BOOLEAN |->
        DirectBody(c.document_id, c.content, c.file_type, lib, write_ok)]

\* process_any_document up to its return.
AnyReturn ==
    [c \in AnyCalls, cat_id \in CatIds, timestamp \in Timestamps |->
        Returned(AnyBody(c.text_content, c.document_type, c.analysis_type),
                 cat_id, timestamp)]

\* handle_preprocessing_failure up to its return.
FailureReturn ==
    [c \in FailureCalls, cat_id \in CatIds, timestamp \in Timestamps |->
        Returned(FailureBody(c.error_message, c.document_info), cat_id, timestamp)]

-----------------------------------------------------------------------------
(* The state machine                                                       *)

Init ==
    /\ document_storage = <<>>
    /\ temp_files = 0
    /\ call = [tool |-> "none"]
    /\ response = [kind |-> "none"]
    /\ last_upload = <<>>

\* text = doc_data['extracted_text']; filename = doc_data['filename']
Read(doc_data) ==
    [extracted_text |-> doc_data.extracted_text, filename |-> doc_data.filename]

\* The history of the store: per identifier, the text and the filename of
\* the latest upload that reported success, and whether that upload came
\* after one of another text or filename.
Uploaded(history, u, ret) ==
    IF ret.result.template = "Document Uploaded Successfully"
    THEN [k \in DOMAIN history \cup {ret.key} |->
            IF k = ret.key
            THEN [extracted_text |-> ret.session.extracted_text,
                  filename |-> u.filename,
                  replaced |-> /\ k \in DOMAIN history
                               /\ \/ history[k].extracted_text # ret.session.extracted_text
                                  \/ history[k].filename # u.filename]
            ELSE history[k]]
    ELSE history

UploadStep(u, phone_number, ret) ==
    /\ document_storage' = StoreAfterUpload(document_storage, ret)
    /\ response' = ret.result
    /\ call' = [tool |-> "upload_document", document_data |-> u.document_data,
                filename |-> u.filename, phone_number |-> phone_number]
    /\ last_upload' = Uploaded(last_upload, u, ret)
    /\ UNCHANGED temp_files

upload_document(u, phone_number) ==
    \E doc_id \in DocIds, lib \in LibOutcomesFor(Lower(PathSuffix(u.filename))),
       cat_id \in CatIds, timestamp \in Timestamps :
        UploadStep(u, phone_number,
                   UploadReturn[u, phone_number, doc_id, lib, cat_id, timestamp])

\* A variant of the step that looks at the operation before the store.
ProcessStepOperationFirst(phone_number, operation, clean_phone, cat_id, timestamp) ==
    /\ IF \A i \in 1..Len(AvailableOperations) : operation # AvailableOperations[i]
       THEN response' = ProcessDispatch(clean_phone, <<>>, <<>>, operation)
       ELSE IF clean_phone \notin DOMAIN document_storage
       THEN response' = NoDocument(clean_phone)
       ELSE response' = ProcessReturn[clean_phone, Read(document_storage[clean_phone]),
                                      operation, cat_id, timestamp]
    /\ call' = [tool |-> "process_document", phone_number |-> phone_number,
                operation |-> operation]
    /\ UNCHANGED <<document_storage, temp_files, last_upload>>

\* The lookup, then the dispatch over the stored text.
ProcessStep(phone_number, operation, clean_phone, cat_id, timestamp) ==
    /\ IF clean_phone \notin DOMAIN document_storage
       THEN response' = NoDocument(clean_phone)
       ELSE response' = ProcessReturn[clean_phone, Read(document_storage[clean_phone]),
                                      operation, cat_id, timestamp]
    /\ call' = [tool |-> "process_document", phone_number |-> phone_number,
                operation |-> operation]
    /\ UNCHANGED <<document_storage, temp_files, last_upload>>

process_document(phone_number, operation) ==
    \E cat_id \in CatIds, timestamp \in Timestamps :
        ProcessStep(phone_number, operation, CleanPhoneProcess[phone_number],
                    cat_id, timestamp)

\* The lookup, then the scan of the stored text and its report.
SearchStep(search_query, phone_number, case_sensitive, clean_phone, cat_id, timestamp) ==
    /\ IF clean_phone \notin DOMAIN document_storage
       THEN response' = NoDocument(clean_phone)
       ELSE response' = SearchReturn[clean_phone, Read(document_storage[clean_phone]),
                                     search_query, case_sensitive, cat_id, timestamp]
    /\ call' = [tool |-> "search_document", search_query |-> search_query,
                phone_number |-> phone_number, case_sensitive |-> case_sensitive]
    /\ UNCHANGED <<document_storage, temp_files, last_upload>>

search_document(search_query, phone_number, case_sensitive) ==
    \E cat_id \in CatIds, timestamp \in Timestamps :
        SearchStep(search_query, phone_number, case_sensitive,
                   CleanPhoneSearch[phone_number], cat_id, timestamp)

\* The temporary file is created and, unless the write failed, unlinked
\* again within the call.  The call is recorded with what its environment
\* did: the parser's outcome and whether the write went through.
DirectStep(c, lib, write_ok, ret) ==
    /\ response' = ret.result
    /\ temp_files' = temp_files + ret.left_behind
    /\ call' = [tool |-> "handle_document_direct", document_id |-> c.document_id,
                content |-> c.content, file_type |-> c.file_type,
                lib |-> lib, write_ok |-> write_ok]
    /\ UNCHANGED <<document_storage, last_upload>>

handle_document_direct(c) ==
    \E lib \in LibOutcomes, write_ok \in BOOLEAN :
        /\ write_ok \/ temp_files < MaxLeftBehind
        /\ DirectStep(c, lib, write_ok, DirectReturn[c, lib, write_ok])

\* A variant of the step that keeps the analysed text as a session.
AnyStepKeepsText(c, ret) ==
    /\ response' = ret
    /\ call' = [tool |-> "process_any_document", text_content |-> c.text_content,
                document_type |-> c.document_type, analysis_type |-> c.analysis_type]
    /\ document_storage' = StorePut(document_storage, Chars("+1direct"),
                                    [extracted_text |-> c.text_content,
                                     filename |-> Chars("direct.txt")])
    /\ UNCHANGED <<temp_files, last_upload>>

AnyStep(c, ret) ==
    /\ response' = ret
    /\ call' = [tool |-> "process_any_document", text_content |-> c.text_content,
                document_type |-> c.document_type, analysis_type |-> c.analysis_type]
    /\ UNCHANGED <<document_storage, temp_files, last_upload>>

process_any_document(c) ==
    \E cat_id \in CatIds, timestamp \in Timestamps :
        AnyStep(c, AnyReturn[c, cat_id, timestamp])

FailureStep(c, ret) ==
    /\ response' = ret
    /\ call' = [tool |-> "handle_preprocessing_failure",
                error_message |-> c.error_message, document_info |-> c.document_info]
    /\ UNCHANGED <<document_storage, temp_files, last_upload>>

handle_preprocessing_failure(c) ==
    \E cat_id \in CatIds, timestamp \in Timestamps :
        FailureStep(c, FailureReturn[c, cat_id, timestamp])

Next ==
    \/ \E c \in UploadCalls : upload_document(c[1], c[2])
    \/ \E p \in Phones, op \in Operations : process_document(p, op)
    \/ \E q \in Queries, p \in Phones, cs \in BOOLEAN : search_document(q, p, cs)
    \/ \E c \in DirectCalls : handle_document_direct(c)
    \/ \E c \in AnyCalls : process_any_document(c)
    \/ \E c \in FailureCalls : handle_preprocessing_failure(c)

Spec == Init /\ [][Next]_vars

-----------------------------------------------------------------------------
(* The text functions on their own: the identifier rule of the three       *)
(* session tools, the classifier and the search scan, applied to inputs    *)
(* that no session of Spec holds.                                          *)

\* The longest raw identifier built from PhoneAlphabet.
MaxPhoneLen == 3

PhoneAlphabet == {"+", "1", "5", " ", "-", "\n"}

RECURSIVE StringsUpTo(_, _)
StringsUpTo(alphabet, n) ==
    IF n = 0 THEN {<<>>}
    ELSE StringsUpTo(alphabet, n - 1)
         \cup {Append(str, c) : str \in StringsUpTo(alphabet, n - 1), c \in alphabet}

\* The raw identifiers: every short string over the alphabet, and numbers
\* of 10 and 11 digits.
RawPhones ==
    StringsUpTo(PhoneAlphabet, MaxPhoneLen)
    \cup {Chars("1234567890"), Chars("+1 234-567-8900"), Chars("2345678901"),
          Chars("23456789012"), Chars(" 555-0100 "), Chars("default_user")}

\* One keyword of each category of the classifier, the last category first.
Keywords == <<"meeting", "RESULTS", "abstract", "function", "def ", "printf">>

\* The keywords picked by a set of indices, in the order of Keywords.
RECURSIVE KeywordText(_, _)
KeywordText(picked, i) ==
    IF i > Len(Keywords) THEN <<>>
    ELSE IF i \in picked THEN Chars(Keywords[i]) \o <<" ">> \o KeywordText(picked, i + 1)
    ELSE KeywordText(picked, i + 1)

ClassifiedTexts == {KeywordText(picked, 1) : picked \in SUBSET (1..Len(Keywords))}

\* The scanned texts: prose, the runs at the cap, a text whose lower case
\* is longer than the text, and the empty text.
ScannedTexts ==
    {Chars("Foo bar foo baz FOO"), <<"U+304", " ", "f", "o", "o">>, <<>>}
    \cup {RunText(n) : n \in MaxMatches..MaxRun}

ScanQueries == {Chars("foo"), Chars("FOO"), Chars("a"), Chars("aa"), Chars("zz")}

\* clean_phone as each of the three tools computes it.
Normalise(phone_number) ==
    /\ call' = [tool |-> "clean_phone", phone_number |-> phone_number]
    /\ response' = [kind |-> "key",
                    upload |-> clean_phone_upload(phone_number),
                    process |-> clean_phone_process(phone_number),
                    search |-> clean_phone_search(phone_number)]
    /\ UNCHANGED <<document_storage, temp_files, last_upload>>

Classify(text) ==
    /\ call' = [tool |-> "_detect_document_type", text |-> text]
    /\ response' = [kind |-> "type", doc_type |-> _detect_document_type(text)]
    /\ UNCHANGED <<document_storage, temp_files, last_upload>>

\* The scan loop of search_document: the positions it collected.
Positions(scan) ==
    [kind |-> "scan",
     positions |-> [i \in 1..Len(scan.occurrences) |-> scan.occurrences[i].position],
     capped |-> scan.capped]

Scan(text, search_query, case_sensitive) ==
    /\ call' = [tool |-> "scan", text |-> text, search_query |-> search_query,
                case_sensitive |-> case_sensitive]
    /\ response' = Positions(Occurrences(text, search_query, case_sensitive))
    /\ UNCHANGED <<document_storage, temp_files, last_upload>>

FunctionNext ==
    \/ \E p \in RawPhones : Normalise(p)
    \/ \E text \in ClassifiedTexts : Classify(text)
    \/ \E text \in ScannedTexts, q \in ScanQueries, cs \in BOOLEAN : Scan(text, q, cs)

FunctionSpec == Init /\ [][FunctionNext]_vars

-----------------------------------------------------------------------------
(* An upload racing a reader.  The three session tools are coroutines      *)
(* without an await, so the event loop runs each of them to its return.    *)
(* RaceSpec lets one upload and one reader take turns after every          *)
(* statement that touches the store or a session instead: what holds of    *)
(* it holds of the coarser schedule the event loop produces.               *)

\* Two uploads that share neither text nor filename, and one that fails.
RaceUploads ==
    {[document_data |-> <<>>, filename |-> Chars("a.txt")],
     [document_data |-> Chars("Rm9vIGJhciBmb28gYmF6IEZPTw=="), filename |-> Chars("b.TXT")],
     [document_data |-> Chars("hello world"), filename |-> Chars("a.txt")]}

RaceDocIds == {Chars("0f3a9c1e"), Chars("7b21d4e0")}

\* Two spellings of one identifier.
RacePhones == {Chars("+1 555-0100"), Chars("5550100")}

\* last_upload is here the set of sessions the uploads have built.
RaceInit ==
    /\ document_storage = <<>>
    /\ temp_files = 0
    /\ call = [tool |-> "race", upload |-> [pc |-> "idle"], reader |-> [pc |-> "idle"]]
    /\ response = [kind |-> "none"]
    /\ last_upload = {}

\* upload_document up to the store assignment: the session is built from
\* the locals; a failed upload returns here.
UploadBuilt(body) ==
    /\ call.upload.pc = "idle"
    /\ IF body.stored
       THEN /\ call' = [call EXCEPT !.upload = [pc |-> "built", key |-> body.key,
                                                session |-> body.session]]
            /\ last_upload' = last_upload \cup {body.session}
       ELSE UNCHANGED <<call, last_upload>>
    /\ UNCHANGED <<document_storage, temp_files, response>>

\* document_storage[clean_phone] = {...}
UploadInstalled ==
    /\ call.upload.pc = "built"
    /\ document_storage' = StorePut(document_storage, call.upload.key, call.upload.session)
    /\ call' = [call EXCEPT !.upload = [pc |-> "idle"]]
    /\ UNCHANGED <<temp_files, response, last_upload>>

\* if clean_phone not in document_storage: return ...
ReaderLookup(clean_phone) ==
    /\ call.reader.pc = "idle"
    /\ IF clean_phone \notin DOMAIN document_storage
       THEN response' = NoDocument(clean_phone) /\ UNCHANGED call
       ELSE /\ call' = [call EXCEPT !.reader = [pc |-> "found", clean_phone |-> clean_phone]]
            /\ UNCHANGED response
    /\ UNCHANGED <<document_storage, temp_files, last_upload>>

\* doc_data = document_storage[clean_phone].  doc_data refers to the stored
\* dict; no statement of the program writes into a stored dict, so the
\* reference is kept as the value it refers to.
ReaderBound ==
    /\ call.reader.pc = "found"
    /\ call' = [call EXCEPT !.reader = [pc |-> "bound",
                                        clean_phone |-> call.reader.clean_phone,
                                        doc_data |-> document_storage[call.reader.clean_phone]]]
    /\ UNCHANGED <<document_storage, temp_files, response, last_upload>>

\* text = doc_data["extracted_text"]
ReaderText ==
    /\ call.reader.pc = "bound"
    /\ call' = [call EXCEPT !.reader = [pc |-> "text",
                                        clean_phone |-> call.reader.clean_phone,
                                        doc_data |-> call.reader.doc_data,
                                        text |-> call.reader.doc_data.extracted_text]]
    /\ UNCHANGED <<document_storage, temp_files, response, last_upload>>

\* filename = doc_data["filename"]; the response records what the reader
\* has seen, and whether the store moved on since it took doc_data.
ReaderFilename ==
    /\ call.reader.pc = "text"
    /\ response' = [kind |-> "read",
                    doc_data |-> call.reader.doc_data,
                    text |-> call.reader.text,
                    filename |-> call.reader.doc_data.filename,
                    raced |-> document_storage[call.reader.clean_phone]
                                 # call.reader.doc_data]
    /\ call' = [call EXCEPT !.reader = [pc |-> "idle"]]
    /\ UNCHANGED <<document_storage, temp_files, last_upload>>

RaceNext ==
    \/ \E u \in RaceUploads, p \in RacePhones, doc_id \in RaceDocIds :
          UploadBuilt(UploadBody(u.document_data, u.filename, p, doc_id, [raises |-> TRUE]))
    \/ UploadInstalled
    \/ \E p \in RacePhones : ReaderLookup(clean_phone_process(p))
    \/ ReaderBound
    \/ ReaderText
    \/ ReaderFilename

RaceSpec == RaceInit /\ [][RaceNext]_vars

-----------------------------------------------------------------------------
(* Properties                                                              *)

\* What the history says a call for phone_number must be served from.
Latest(phone_number) ==
    [extracted_text |-> last_upload[CleanPhoneUpload[phone_number]].extracted_text,
     filename |-> last_upload[CleanPhoneUpload[phone_number]].filename]

HasLatest(phone_number) == CleanPhoneUpload[phone_number] \in DOMAIN last_upload

\* C1: the store holds, per normalised key, exactly the session of the
\* latest successful upload for that key, and a process_document or
\* search_document call for an identifier returns the report over the text
\* and the filename of the latest successful upload whose phone_number has
\* the same normalised key, never over an earlier upload's.
C1_LatestUploadServed ==
    /\ DOMAIN document_storage = DOMAIN last_upload
    /\ \A k \in DOMAIN document_storage :
          /\ document_storage[k].extracted_text = last_upload[k].extracted_text
          /\ document_storage[k].filename = last_upload[k].filename
    /\ (call.tool = "process_document" /\ HasLatest(call.phone_number))
          => \E cat_id \in CatIds, timestamp \in Timestamps :
                response = ProcessReturn[CleanPhoneUpload[call.phone_number],
                                         Latest(call.phone_number), call.operation,
                                         cat_id, timestamp]
    /\ (call.tool = "search_document" /\ HasLatest(call.phone_number))
          => \E cat_id \in CatIds, timestamp \in Timestamps :
                response = SearchReturn[CleanPhoneUpload[call.phone_number],
                                        Latest(call.phone_number), call.search_query,
                                        call.case_sensitive, cat_id, timestamp]

\* A summary served for a key whose session replaced an earlier, different
\* upload.
C1_Witness ==
    /\ call.tool = "process_document"
    /\ call.operation = "summarize"
    /\ HasLatest(call.phone_number)
    /\ last_upload[CleanPhoneUpload[call.phone_number]].replaced
    /\ response.kind = "text"
    /\ response.template = "Document Summary"

\* C2: for an identifier whose key has no session, process_document under
\* every operation name and search_document under every query return the
\* no-document response, and do not raise.
C2_NoDocumentFound ==
    /\ (call.tool = "process_document"
        /\ CleanPhoneProcess[call.phone_number] \notin DOMAIN document_storage)
          => response = NoDocument(CleanPhoneProcess[call.phone_number])
    /\ (call.tool = "search_document"
        /\ CleanPhoneSearch[call.phone_number] \notin DOMAIN document_storage)
          => response = NoDocument(CleanPhoneSearch[call.phone_number])

\* An unknown operation asked of an identifier without a session, while
\* another identifier has one.
C2_Witness ==
    /\ call.tool = "process_document"
    /\ call.operation = "translate"
    /\ CleanPhoneProcess[call.phone_number] \notin DOMAIN document_storage
    /\ DOMAIN document_storage # {}
    /\ response.template = "No document found"

\* C3 as stated: every call of the six tools ends by returning a text,
\* whatever the input and the store; no call ends by raising.
C3_EveryCallReturnsText == call.tool # "none" => response.kind = "text"

\* The upload of the last call did not report success.
FailedUpload(c, r) ==
    c.tool = "upload_document" /\ r.template # "Document Uploaded Successfully"

\* C4: an upload_document call that ends in the unsupported-format message
\* or in the error message of a failed decoding or extraction leaves the
\* whole store as it was.
C4_FailedUploadKeepsStore ==
    [][FailedUpload(call', response') => document_storage' = document_storage]_vars

\* An extraction failure for an identifier that has a session.
C4_Witness ==
    /\ FailedUpload(call, response)
    /\ response.template = "Error processing document"
    /\ call.filename = Chars("report.pdf")
    /\ CleanPhoneUpload[call.phone_number] \in DOMAIN document_storage

\* C5: an upload_document call for one normalised key leaves the session
\* stored under every other key as it was.
C5_OtherKeysUntouched ==
    [][call'.tool = "upload_document"
        => \A k \in DOMAIN document_storage \ {CleanPhoneUpload[call'.phone_number]} :
              k \in DOMAIN document_storage' /\ document_storage'[k] = document_storage[k]]_vars

\* A successful upload for one key while another key has a session.
C5_Witness ==
    /\ call.tool = "upload_document"
    /\ response.template = "Document Uploaded Successfully"
    /\ CleanPhoneUpload[call.phone_number] \in DOMAIN document_storage
    /\ DOMAIN document_storage \ {CleanPhoneUpload[call.phone_number]} # {}

\* C6: every call other than upload_document leaves the store as it was,
\* and what handle_document_direct and process_any_document return is what
\* they return for the same arguments whatever the store holds.
C6_OnlyUploadWrites ==
    [][/\ call'.tool # "upload_document" => document_storage' = document_storage
       /\ call'.tool = "process_any_document"
            => \E cat_id \in CatIds, timestamp \in Timestamps :
                  response' = AnyReturn[[text_content |-> call'.text_content,
                                         document_type |-> call'.document_type,
                                         analysis_type |-> call'.analysis_type],
                                        cat_id, timestamp]
       /\ call'.tool = "handle_document_direct"
            => \E lib \in LibOutcomes, write_ok \in BOOLEAN :
                  response' = DirectReturn[[document_id |-> call'.document_id,
                                            content |-> call'.content,
                                            file_type |-> call'.file_type],
                                           lib, write_ok].result]_vars

\* A direct analysis returned while the store holds a session.
C6_Witness ==
    /\ call.tool = "process_any_document"
    /\ response.template = "Document Analysis Complete"
    /\ DOMAIN document_storage # {}

\* C7: with a session stored for the identifier, process_document under an
\* operation name outside the five returns the unknown-operation message
\* listing the five operations.
C7_UnknownOperation ==
    (/\ call.tool = "process_document"
     /\ CleanPhoneProcess[call.phone_number] \in DOMAIN document_storage
     /\ call.operation \notin {"summarize", "analyze", "extract_key_points",
                               "word_count", "format_clean"})
       => /\ response.kind = "text"
          /\ response.template = "Unknown operation"
          /\ response.operation = Chars(call.operation)
          /\ {response.available[i] : i \in 1..Len(response.available)}
                = {"summarize", "analyze", "extract_key_points", "word_count",
                   "format_clean"}

\* The operation translate asked of a stored session.
C7_Witness ==
    /\ call.tool = "process_document"
    /\ call.operation = "translate"
    /\ CleanPhoneProcess[call.phone_number] \in DOMAIN document_storage
    /\ response.template = "Unknown operation"

\* The stored text and the query of a search call as the scan compares
\* them, and the start positions at which the query occurs.
Haystack ==
    IF call.case_sensitive
    THEN document_storage[CleanPhoneSearch[call.phone_number]].extracted_text
    ELSE Lower(document_storage[CleanPhoneSearch[call.phone_number]].extracted_text)

Needle == IF call.case_sensitive THEN call.search_query ELSE Lower(call.search_query)

TrueOccurrences ==
    {i \in 0..(Len(Haystack) - Len(Needle)) : Slice(Haystack, i, i + Len(Needle)) = Needle}

SearchedSession ==
    /\ call.tool = "search_document"
    /\ CleanPhoneSearch[call.phone_number] \in DOMAIN document_storage

\* C8 as stated: search_document with an empty query, or with a query that
\* does not occur in the stored text, returns the no-matches report, for
\* every stored text.
C8_EmptyOrAbsentQueryFindsNothing ==
    (SearchedSession /\ (call.search_query = <<>> \/ TrueOccurrences = {}))
       => response.kind = "text" /\ response.template = "No matches found"

\* C9: a search report never lists more than 10 occurrences, and a scan
\* that the 10-match cap stopped carries the note.
C9_AtMostTenAndNoted ==
    (call.tool = "search_document" /\ response.template = "Search Results")
       => /\ response.found <= 10
          /\ Len(response.contexts) <= 10
          /\ response.capped => response.note

\* The query a over the longest run of a: more occurrences than the cap.
C9_Witness ==
    /\ SearchedSession
    /\ call.search_query = Chars("a")
    /\ Haystack = RunText(MaxRun)
    /\ Cardinality(TrueOccurrences) > 10
    /\ response.template = "Search Results"
    /\ response.found = 10
    /\ response.capped
    /\ response.note

\* C10 as stated: for a non-empty query, the note is in the report exactly
\* when the stored text holds more occurrences than the report returned.
C10_NoteIffMoreOccurrences ==
    (SearchedSession /\ call.search_query # <<>> /\ response.template = "Search Results")
       => (response.note <=> Cardinality(TrueOccurrences) > response.found)

\* The start positions of the stored text at which the query of a scan
\* occurs, compared as the call asks.
MatchesAt(text, search_query, case_sensitive, i) ==
    IF case_sensitive
    THEN Slice(text, i, i + Len(search_query)) = search_query
    ELSE Lower(Slice(text, i, i + Len(search_query))) = Lower(search_query)

OccursAt ==
    {i \in 0..(Len(call.text) - Len(call.search_query)) :
        MatchesAt(call.text, call.search_query, call.case_sensitive, i)}

\* C11 as stated: for a non-empty query with at most 10 occurrences the
\* scan returns exactly the start positions at which the query occurs in
\* the stored text, each once and in ascending order.
C11_EveryPositionAscending ==
    (call.tool = "scan" /\ call.search_query # <<>> /\ Cardinality(OccursAt) <= 10)
       => /\ {response.positions[i] : i \in 1..Len(response.positions)} = OccursAt
          /\ \A i, j \in 1..Len(response.positions) :
                i < j => response.positions[i] < response.positions[j]

\* The rule for the store key in words: surrounding whitespace removed,
\* then every space and hyphen; kept if it starts with +, else + prepended
\* if it starts with 1 or is longer than 10 characters, else +1.
RuleKey(k) ==
    IF StartsWith(k, <<"+">>) THEN k
    ELSE IF StartsWith(k, <<"1">>) \/ Len(k) > 10 THEN <<"+">> \o k
    ELSE <<"+", "1">> \o k

OneRule ==
    call.tool = "clean_phone"
       => /\ response.upload
                = RuleKey(Replace(Replace(Strip(call.phone_number), <<" ">>, <<>>),
                                  <<"-">>, <<>>))
          /\ response.process = response.upload
          /\ response.search = response.upload

\* C12, amended: the three tools derive the key by that one rule, so one
\* raw identifier reaches one session in all three; '1234567890' gives
\* '+1234567890' and '+1 234-567-8900' gives '+12345678900'.
C12_OneRuleForAllTools ==
    /\ OneRule
    /\ (call.tool = "clean_phone" /\ call.phone_number = Chars("1234567890"))
          => response.upload = Chars("+1234567890")
    /\ (call.tool = "clean_phone" /\ call.phone_number = Chars("+1 234-567-8900"))
          => response.upload = Chars("+12345678900")

\* The ten digits starting with 1, normalised by each tool.
C12_Witness ==
    /\ call.tool = "clean_phone"
    /\ call.phone_number = Chars("1234567890")
    /\ response.upload = Chars("+1234567890")
    /\ response.process = Chars("+1234567890")
    /\ response.search = Chars("+1234567890")

\* C12 as stated: the same rule, with '1234567890' giving '+11234567890'.
C12_AsStated ==
    /\ OneRule
    /\ (call.tool = "clean_phone" /\ call.phone_number = Chars("1234567890"))
          => response.upload = Chars("+11234567890")
    /\ (call.tool = "clean_phone" /\ call.phone_number = Chars("+1 234-567-8900"))
          => response.upload = Chars("+12345678900")

\* The categories in the order of the scan, each with its triggers.
Categories ==
    <<[name |-> "C/C++ Code",
       triggers |-> {"#include", "int main", "void main", "printf", "scanf"}],
      [name |-> "Python Code",
       triggers |-> {"def ", "import ", "print(", "if __name__"}],
      [name |-> "JavaScript Code",
       triggers |-> {"function", "var ", "let ", "console.log", "document."}],
      [name |-> "Research Paper",
       triggers |-> {"abstract", "introduction", "methodology", "bibliography"}],
      [name |-> "Lab Report",
       triggers |-> {"experiment", "procedure", "results", "conclusion", "hypothesis"}],
      [name |-> "Business Document",
       triggers |-> {"meeting", "agenda", "action items", "quarterly"}]>>

Triggered(text, n) ==
    \E t \in Categories[n].triggers : Contains(Lower(text), Chars(t))

\* C13: the classifier gives the first category, in the order C/C++,
\* Python, JavaScript, Research Paper, Lab Report, Business Document, of
\* which the lower-cased text contains a trigger, and General Document when
\* it contains none; a text with 'def ' and 'abstract' and no C/C++ trigger
\* is Python Code.
C13_FirstCategoryWins ==
    call.tool = "_detect_document_type"
       => /\ \A n \in 1..Len(Categories) :
                response.doc_type = Chars(Categories[n].name)
                   <=> (Triggered(call.text, n)
                        /\ \A m \in 1..(n - 1) : ~Triggered(call.text, m))
          /\ response.doc_type = Chars("General Document")
                <=> \A n \in 1..Len(Categories) : ~Triggered(call.text, n)
          /\ (Contains(Lower(call.text), Chars("def "))
              /\ Contains(Lower(call.text), Chars("abstract"))
              /\ ~Triggered(call.text, 1))
                => response.doc_type = Chars("Python Code")

\* A text with an academic and a Python trigger, and an upper-case trigger
\* of a later category, classified.
C13_Witness ==
    /\ call.tool = "_detect_document_type"
    /\ Contains(call.text, Chars("def "))
    /\ Contains(call.text, Chars("abstract"))
    /\ Contains(call.text, Chars("RESULTS"))
    /\ ~Triggered(call.text, 1)
    /\ response.doc_type = Chars("Python Code")

\* The text an analyze call read, and whether it answered with the
\* analysis report.
Analyzed ==
    /\ call.tool = "process_document"
    /\ call.operation = "analyze"
    /\ response.kind = "text"
    /\ response.template = "Document Analysis"

AnalyzedText == document_storage[CleanPhoneProcess[call.phone_number]].extracted_text

\* The analysis report gives the number of newline-separated lines and of
\* non-blank blocks separated by a blank line: 2 and 1 for the two-line text.
AnalyzeCounts ==
    Analyzed
       => /\ response.lines = Len(Split(AnalyzedText, <<"\n">>))
          /\ response.paragraphs
                = Len(SelectSeq(Split(AnalyzedText, <<"\n", "\n">>),
                                LAMBDA p : Strip(p) # <<>>))
          /\ AnalyzedText = Chars("def f(x):\n    return x")
                => (response.lines = 2 /\ response.paragraphs = 1)

\* C14 as stated: the analysis report of a stored text names the category
\* the classifier gives that text (Python Code for a text containing
\* 'def '), with its paragraph count and its line count.
C14_AnalyzeReportsCategory ==
    /\ AnalyzeCounts
    /\ Analyzed => Chars(response.appears) = _detect_document_type(AnalyzedText)

DirectCall == call.tool = "handle_document_direct"

\* C15 as stated: no call of handle_document_direct ends with its temporary
\* file still present, a call whose write failed included.
C15_NoTemporaryFileLeft == DirectCall => temp_files = 0

\* The file type the call works with, and whether the extraction from the
\* temporary file raises for the content taken as plain text.
DirectFileType ==
    IF call.file_type = Chars("auto")
    THEN DetectedFormat(Lower(call.document_id), 1)
    ELSE call.file_type

PlainTextExtractionFails ==
    /\ DirectCall
    /\ call.content # <<>>
    /\ \E i \in 1..Len(SupportedFormats) : Lower(DirectFileType) = Chars(SupportedFormats[i])
    /\ ~b64decode(call.content).ok
    /\ call.write_ok
    /\ ~_extract_text_from_file(TempPath(DirectFileType), Utf8Encode(call.content),
                                call.lib).ok

\* C16: content that did not decode as base64 and whose extraction failed
\* is answered with the direct-text analysis of the content as given; the
\* failure response is given only for content that decoded as base64.
C16_PlainTextFallsBack ==
    /\ PlainTextExtractionFails
          => /\ response.template = "Text Content Analyzed"
             /\ response.analysis = _analyze_text(call.content)
             /\ response.document_id = call.document_id
    /\ (DirectCall /\ response.template = "Failed to process binary file")
          => b64decode(call.content).ok

\* Plain text sent as a .docx whose parser raised.
C16_Witness ==
    /\ PlainTextExtractionFails
    /\ call.content = Chars("Foo bar foo")
    /\ DirectFileType = Chars("docx")
    /\ call.lib.raises
    /\ response.template = "Text Content Analyzed"

\* C17 as stated: process_any_document answers every text that contains
\* both 'Document Received!' and 'Document ID =' with the metadata-only
\* guidance, wherever the markers stand, and never with an analysis or an
\* error.
C17_PlaceholderGetsGuidance ==
    (/\ call.tool = "process_any_document"
     /\ Contains(call.text_content, Chars("Document Received!"))
     /\ Contains(call.text_content, Chars("Document ID =")))
       => /\ response.kind = "text"
          /\ response.template = "Document Metadata Received"

\* The tags add_cat_signature has put on headings of the report.
Tags(r) == IF "headings" \in DOMAIN r /\ "signature" \in DOMAIN r
           THEN {h.tag : h \in r.headings}
           ELSE {}

\* The report of the call as the session and the arguments alone give it.
ReportOf(clean_phone) ==
    IF call.tool = "process_document"
    THEN ProcessDispatch(clean_phone, document_storage[clean_phone].extracted_text,
                         document_storage[clean_phone].filename, call.operation)
    ELSE SearchReport(clean_phone, document_storage[clean_phone].extracted_text,
                      document_storage[clean_phone].filename, call.search_query,
                      call.case_sensitive)

\* The fields of the report body: all but the signature block and the
\* headings, whose tags are told apart by Tags.
BodyFields(r) == DOMAIN r \ {"signature", "headings"}

SameBody(r, report) ==
    /\ BodyFields(r) = BodyFields(report)
    /\ \A f \in BodyFields(r) : r[f] = report[f]

ReportedSession ==
    /\ call.tool \in {"process_document", "search_document"}
    /\ response.kind = "text"
    /\ CleanPhoneProcess[call.phone_number] \in DOMAIN document_storage

\* C18 as stated: a report of process_document or search_document is, but
\* for the appended signature block, what the stored session and the
\* arguments give; the tag and the time of the call are not in its body.
C18_BodyWithoutTag ==
    ReportedSession
       => /\ Tags(response) = {}
          /\ SameBody(response, ReportOf(CleanPhoneProcess[call.phone_number]))

\* C19 as stated: the key upload_document derives and prints, given back
\* as phone_number to process_document or search_document, is the key
\* they look up.
C19_NormalisedKeyIsFixed ==
    call.tool = "clean_phone"
       => /\ clean_phone_upload(response.upload) = response.upload
          /\ clean_phone_process(response.upload) = response.upload
          /\ clean_phone_search(response.upload) = response.upload

\* C20: under every interleaving of an upload with a reader of the same
\* identifier, the session, the text and the filename the reader sees are
\* those of one session an upload built, with that upload's document id and
\* bytes.
C20_ReaderSeesOneUpload ==
    (call.tool = "race" /\ response.kind = "read")
       => \E session \in last_upload :
             /\ response.doc_data = session
             /\ response.text = session.extracted_text
             /\ response.filename = session.filename
             /\ response.doc_data.doc_id = session.doc_id
             /\ response.doc_data.file_bytes = session.file_bytes

\* A reader that finished after an upload replaced the session it had
\* taken, by one of another text, filename and document id.
C20_Witness ==
    /\ call.tool = "race"
    /\ response.kind = "read"
    /\ response.raced
    /\ \E k \in DOMAIN document_storage :
          /\ document_storage[k].extracted_text # response.text
          /\ document_storage[k].filename # response.filename
          /\ document_storage[k].doc_id # response.doc_data.doc_id

====
